---------------------------- MODULE Spec2Model ----------------------------
(***************************************************************************)
(* Beam property model (src/beams.py) and the exhaustive per-family search *)
(* with its driver (src/part2.py).                                         *)
(*                                                                         *)
(* Units.  Every dimension is an integer number of half grid steps, so     *)
(* that h/2 and min(b,h)/2 of part2.py are exact: step_size is 2 units.    *)
(* Real quantities are exact rationals [n |-> numerator, d |-> denominator]*)
(* with d >= 0; d = 0 with n > 0 is the IEEE +inf that a numpy.float64     *)
(* division by zero produces.  math.pi is the rational PiNum/PiDen.        *)
(***************************************************************************)
EXTENDS Integers, Sequences, FiniteSets, TLC

\* ------------------------------------------------------------------ bounds
\* max_breadth and max_height of part2.py, in grid steps (30 and 100 there).
MaxBreadthSteps == 3
MaxHeightSteps == 4
\* Rows of the material table the driver iterates over.
NumMaterials == 2
\* Number of beams folded by the reduction harness.
FoldLen == 2

\* --------------------------------------------------------------- constants
step_size == 2
length == 4
loading == 24
max_breadth == MaxBreadthSteps * step_size
max_height == MaxHeightSteps * step_size
PiNum == 22
PiDen == 7

\* ---------------------------------------------------------------- numbers
R(n, d) == [n |-> n, d |-> d]
RInt(k) == R(k, 1)
RMul(x, y) == R(x.n * y.n, x.d * y.d)
RSub(x, y) == R(x.n * y.d - y.n * x.d, x.d * y.d)
RAdd(x, y) == R(x.n * y.d + y.n * x.d, x.d * y.d)
RDivInt(x, k) == R(x.n, x.d * k)
RLt(x, y) == x.n * y.d < y.n * x.d
RLeq(x, y) == x.n * y.d <= y.n * x.d
REq(x, y) == x.n * y.d = y.n * x.d
RMin(x, y) == IF RLt(y, x) THEN y ELSE x
pi == R(PiNum, PiDen)

\* x / y on Python int and numpy.float64 operands: a zero divisor gives
\* +-inf with a RuntimeWarning, no exception is raised.
PyTrueDivide(x, y) ==
    [raised |-> (y.n = 0),
     val |-> IF y.n < 0 THEN R(-(x.n * y.d), -(x.d * y.n))
                        ELSE R(x.n * y.d, x.d * y.n)]
TrueDivide(x, y) ==
    [raised |-> FALSE,
     val |-> IF y.n < 0 THEN R(-(x.n * y.d), -(x.d * y.n))
                        ELSE R(x.n * y.d, x.d * y.n)]

\* numpy.arange(start, stop, step): ceil((stop - start) / step) values
\* start, start + step, ...
arange(start, stop, step) ==
    LET n == IF stop > start THEN ((stop - start) + step - 1) \div step ELSE 0
    IN  [k \in 1..n |-> start + (k - 1) * step]

Min2(x, y) == IF x < y THEN x ELSE y
Range(s) == {s[k] : k \in DOMAIN s}

\* --------------------------------------------------------------- materials
Material(name, yield_stress, modulus, elongation) ==
    [name |-> name, yield_stress |-> yield_stress, modulus |-> modulus,
     elongation |-> elongation]

\* Rows the material table may hold (positive fields), in model units.
MaterialRows ==
    { Material("weak", RInt(1), RInt(1), R(1, 100)),
      Material("soft", RInt(1), RInt(2), R(1, 1)),
      Material("brittle", RInt(1), RInt(2), R(1, 4)),
      Material("stiff", RInt(3), RInt(16), R(1, 4)) }

\* ------------------------------------------------------------------- beams
None == [family |-> "None"]

RHSBeam(material, len, b, h, t) ==
    [family |-> "RHS", material |-> material, length |-> len,
     b |-> b, h |-> h, t |-> t]
CHSBeam(material, len, r, t) ==
    [family |-> "CHS", material |-> material, length |-> len, r |-> r, t |-> t]
IBeam(material, len, b, h, tw, tf) ==
    [family |-> "I", material |-> material, length |-> len,
     b |-> b, h |-> h, tw |-> tw, tf |-> tf]

RHSBeam_area(s) == RInt(s.b * s.h - (s.b - 2 * s.t) * (s.h - 2 * s.t))
RHSBeam_Ixx(s) ==
    LET I_big == RDivInt(RInt(s.b * s.h * s.h * s.h), 12)
        hi == s.h - 2 * s.t
        I_small == RDivInt(RInt((s.b - 2 * s.t) * hi * hi * hi), 12)
    IN  RSub(I_big, I_small)
RHSBeam_Iyy(s) ==
    LET I_big == RDivInt(RInt(s.h * s.b * s.b * s.b), 12)
        bi == s.b - 2 * s.t
        I_small == RDivInt(RInt((s.h - 2 * s.t) * bi * bi * bi), 12)
    IN  RSub(I_big, I_small)

\* A thin-wall shortcut 2*pi*r*t instead of the formula of the source.
CHSBeam_area_thin(s) == RMul(pi, RInt(2 * s.r * s.t))
CHSBeam_area(s) == RMul(pi, RInt(2 * s.r * s.t - s.t * s.t))
CHSBeam_Ixx(s) ==
    LET ri == s.r - s.t
    IN  RMul(RDivInt(pi, 4), RInt(s.r * s.r * s.r * s.r - ri * ri * ri * ri))
CHSBeam_Iyy(s) == CHSBeam_Ixx(s)

\* The web counted over the full height (flange overlap not subtracted).
IBeam_area_overlap(s) == RInt(2 * s.b * s.tf + s.tw * s.h)
IBeam_area(s) ==
    LET a_flanges == 2 * s.b * s.tf
        a_web == s.tw * (s.h - 2 * s.tf)
    IN  RInt(a_flanges + a_web)
IBeam_Ixx(s) ==
    LET I_big == RDivInt(RInt(s.b * s.h * s.h * s.h), 12)
        b_small == R(s.b - s.tw, 2)
        h_small == s.h - 2 * s.tf
        I_small == RDivInt(RMul(b_small, RInt(h_small * h_small * h_small)), 12)
    IN  RSub(I_big, RMul(RInt(2), I_small))
IBeam_Iyy(s) ==
    LET I_flange == RDivInt(RInt(s.tf * s.b * s.b * s.b), 12)
        I_web == RDivInt(RInt((s.h - 2 * s.tf) * s.tw * s.tw * s.tw), 12)
    IN  RAdd(RMul(RInt(2), I_flange), I_web)

area(s) ==
    CASE s.family = "I" -> IBeam_area(s)
      [] s.family = "RHS" -> RHSBeam_area(s)
      [] s.family = "CHS" -> CHSBeam_area(s)
second_moment_of_area_xx(s) ==
    CASE s.family = "I" -> IBeam_Ixx(s)
      [] s.family = "RHS" -> RHSBeam_Ixx(s)
      [] s.family = "CHS" -> CHSBeam_Ixx(s)
second_moment_of_area_yy(s) ==
    CASE s.family = "I" -> IBeam_Iyy(s)
      [] s.family = "RHS" -> RHSBeam_Iyy(s)
      [] s.family = "CHS" -> CHSBeam_Iyy(s)

buckling_load(s) ==
    LET min_I == RMin(second_moment_of_area_xx(s), second_moment_of_area_yy(s))
    IN  RDivInt(RMul(RMul(RMul(pi, pi), s.material.modulus), min_I),
                s.length * s.length)
squash_load(s) == RMul(s.material.yield_stress, area(s))

\* [raised, val]: raised when the division raises (an exception that the
\* except (AttributeError, TypeError) clause does not catch).
get_strain(s, load) ==
    LET stress == TrueDivide(RInt(load), area(s))
        strain == TrueDivide(stress.val, s.material.modulus)
    IN  [raised |-> stress.raised \/ strain.raised, val |-> strain.val]

is_sufficient(s, load) ==
    LET strain == get_strain(s, load)
    IN  [raised |-> strain.raised,
         val |-> /\ ~strain.raised
                 /\ RLeq(RInt(load), squash_load(s))
                 /\ RLeq(RInt(load), buckling_load(s))
                 /\ RLeq(strain.val, s.material.elongation)]

\* Faulty variants of get_new_best_beam: without the sufficiency gate, with
\* "or" for "and" in the tie-break, and without the seeding of an absent
\* incumbent.
get_new_best_beam_ungated(s, load, curr_best_beam) ==
    LET suff == is_sufficient(s, load)
        curr == IF curr_best_beam = None THEN s ELSE curr_best_beam
    IN  [raised |-> suff.raised,
         val |-> IF RLt(area(s), area(curr)) THEN curr
                 ELSE IF /\ REq(area(s), area(curr))
                         /\ RLt(second_moment_of_area_xx(curr), second_moment_of_area_xx(s))
                         /\ RLt(second_moment_of_area_yy(curr), second_moment_of_area_yy(s))
                      THEN s ELSE curr]
get_new_best_beam_either(s, load, curr_best_beam) ==
    LET suff == is_sufficient(s, load)
        curr == IF curr_best_beam = None THEN s ELSE curr_best_beam
    IN  [raised |-> suff.raised,
         val |-> IF suff.raised \/ ~suff.val THEN curr_best_beam
                 ELSE IF RLt(area(s), area(curr)) THEN curr
                 ELSE IF /\ REq(area(s), area(curr))
                         /\ \/ RLt(second_moment_of_area_xx(curr), second_moment_of_area_xx(s))
                            \/ RLt(second_moment_of_area_yy(curr), second_moment_of_area_yy(s))
                      THEN s ELSE curr]
get_new_best_beam_no_seed(s, load, curr_best_beam) ==
    LET suff == is_sufficient(s, load)
    IN  [raised |-> suff.raised,
         val |-> IF suff.raised \/ ~suff.val \/ curr_best_beam = None
                 THEN curr_best_beam
                 ELSE IF /\ REq(area(s), area(curr_best_beam))
                         /\ RLt(second_moment_of_area_xx(curr_best_beam), second_moment_of_area_xx(s))
                         /\ RLt(second_moment_of_area_yy(curr_best_beam), second_moment_of_area_yy(s))
                      THEN s ELSE curr_best_beam]

\* self.area < curr_best_beam.area assigns the local best_beam, which is
\* never returned: that branch leaves curr_best_beam as it was.
get_new_best_beam(s, load, curr_best_beam) ==
    LET suff == is_sufficient(s, load)
        curr == IF curr_best_beam = None THEN s ELSE curr_best_beam
    IN  [raised |-> suff.raised,
         val |-> IF suff.raised \/ ~suff.val THEN curr_best_beam
                 ELSE IF RLt(area(s), area(curr)) THEN curr
                 ELSE IF /\ REq(area(s), area(curr))
                         /\ RLt(second_moment_of_area_xx(curr), second_moment_of_area_xx(s))
                         /\ RLt(second_moment_of_area_yy(curr), second_moment_of_area_yy(s))
                      THEN s ELSE curr]

\* ------------------------------------------------------- the search grids
\* Loop ranges of get_best_I_beam, get_best_RHS_beam and get_best_CHS_beam.
\* h and min(b, h) are multiples of step_size = 2, so the halves are exact.
breadths == arange(step_size, max_breadth + step_size, step_size)
heights == arange(step_size, max_height + step_size, step_size)
I_tws(b) == arange(step_size, b + step_size, step_size)
I_tfs(h) == arange(step_size, h \div 2 + step_size, step_size)
RHS_ts(b, h) == arange(step_size, Min2(b, h) \div 2 + step_size, step_size)
CHS_min_dimension == Min2(max_breadth, max_height)
CHS_rs == arange(step_size, CHS_min_dimension \div 2 + step_size, step_size)
CHS_ts(r) == arange(step_size, r + step_size, step_size)

StopIteration == [family |-> "StopIteration"]

\* Iterator positions of the nested for loops (every range is non-empty).
I_first == [family |-> "I", ib |-> 1, ih |-> 1, itw |-> 1, itf |-> 1]
I_next(p) ==
    LET b == breadths[p.ib]
        h == heights[p.ih]
    IN  IF p.itf < Len(I_tfs(h)) THEN [p EXCEPT !.itf = @ + 1]
        ELSE IF p.itw < Len(I_tws(b)) THEN [p EXCEPT !.itw = @ + 1, !.itf = 1]
        ELSE IF p.ih < Len(heights)
             THEN [p EXCEPT !.ih = @ + 1, !.itw = 1, !.itf = 1]
        ELSE IF p.ib < Len(breadths)
             THEN [p EXCEPT !.ib = @ + 1, !.ih = 1, !.itw = 1, !.itf = 1]
        ELSE StopIteration
I_beam_at(material, p) ==
    LET b == breadths[p.ib]
        h == heights[p.ih]
    IN  IBeam(material, length, b, h, I_tws(b)[p.itw], I_tfs(h)[p.itf])

RHS_first == [family |-> "RHS", ib |-> 1, ih |-> 1, it |-> 1]
RHS_next(p) ==
    LET b == breadths[p.ib]
        h == heights[p.ih]
    IN  IF p.it < Len(RHS_ts(b, h)) THEN [p EXCEPT !.it = @ + 1]
        ELSE IF p.ih < Len(heights) THEN [p EXCEPT !.ih = @ + 1, !.it = 1]
        ELSE IF p.ib < Len(breadths)
             THEN [p EXCEPT !.ib = @ + 1, !.ih = 1, !.it = 1]
        ELSE StopIteration
RHS_beam_at(material, p) ==
    LET b == breadths[p.ib]
        h == heights[p.ih]
    IN  RHSBeam(material, length, b, h, RHS_ts(b, h)[p.it])

CHS_first == [family |-> "CHS", ir |-> 1, it |-> 1]
CHS_next(p) ==
    LET r == CHS_rs[p.ir]
    IN  IF p.it < Len(CHS_ts(r)) THEN [p EXCEPT !.it = @ + 1]
        ELSE IF p.ir < Len(CHS_rs) THEN [p EXCEPT !.ir = @ + 1, !.it = 1]
        ELSE StopIteration
CHS_beam_at(material, p) ==
    LET r == CHS_rs[p.ir]
    IN  CHSBeam(material, length, r, CHS_ts(r)[p.it])

\* Every iterator position the nested loops of a family reach, and every
\* beam the family's search constructs for a material.
I_positions ==
    { p \in [family : {"I"}, ib : DOMAIN breadths, ih : DOMAIN heights,
             itw : 1..Len(breadths), itf : 1..Len(heights)] :
        /\ p.itw \in DOMAIN I_tws(breadths[p.ib])
        /\ p.itf \in DOMAIN I_tfs(heights[p.ih]) }
RHS_positions ==
    { p \in [family : {"RHS"}, ib : DOMAIN breadths, ih : DOMAIN heights,
             it : 1..Len(heights)] :
        p.it \in DOMAIN RHS_ts(breadths[p.ib], heights[p.ih]) }
CHS_positions ==
    { p \in [family : {"CHS"}, ir : DOMAIN CHS_rs, it : 1..(Len(CHS_rs) + 1)] :
        p.it \in DOMAIN CHS_ts(CHS_rs[p.ir]) }
I_grid(material) == { I_beam_at(material, p) : p \in I_positions }
RHS_grid(material) == { RHS_beam_at(material, p) : p \in RHS_positions }
CHS_grid(material) == { CHS_beam_at(material, p) : p \in CHS_positions }

first(family) ==
    CASE family = "I" -> I_first
      [] family = "RHS" -> RHS_first
      [] family = "CHS" -> CHS_first
next(p) ==
    CASE p.family = "I" -> I_next(p)
      [] p.family = "RHS" -> RHS_next(p)
      [] p.family = "CHS" -> CHS_next(p)
beam_at(material, p) ==
    CASE p.family = "I" -> I_beam_at(material, p)
      [] p.family = "RHS" -> RHS_beam_at(material, p)
      [] p.family = "CHS" -> CHS_beam_at(material, p)
grid(family, material) ==
    CASE family = "I" -> I_grid(material)
      [] family = "RHS" -> RHS_grid(material)
      [] family = "CHS" -> CHS_grid(material)
Families == {"I", "RHS", "CHS"}

\* ------------------------------------------------------------------ state
VARIABLES
    materials,        \* the material table read from the csv file
    i,                \* the driver's loop index over materials
    pc,               \* the search running: "I", "RHS", "CHS"; "done"; "crashed"
    loop,             \* iterator position of the running search's loops
    beam,             \* the beam the loop body constructed last
    best,             \* best_I_beam / best_RHS_beam / best_CHS_beam
    best_I_beams, best_RHS_beams, best_CHS_beams,
    pair,             \* pairwise comparison of two beams
    fold              \* reduction of a list of beams

searchVars == <<materials, i, pc, loop, beam, best,
                best_I_beams, best_RHS_beams, best_CHS_beams>>
vars == <<materials, i, pc, loop, beam, best,
          best_I_beams, best_RHS_beams, best_CHS_beams, pair, fold>>

Idle == [pc |-> "idle"]

material == materials[i]

\* --------------------------------------------------- the driver and searches
Init ==
    /\ materials \in [1..NumMaterials -> MaterialRows]
    /\ i = 1
    /\ pc = "I"
    /\ loop = I_first
    /\ beam = None
    /\ best = None
    /\ best_I_beams = <<>>
    /\ best_RHS_beams = <<>>
    /\ best_CHS_beams = <<>>
    /\ pair = Idle
    /\ fold = Idle

\* One iteration of the innermost loop body: construct the beam and fold it
\* into the incumbent.  An exception leaves the script.
search_body(family) ==
    /\ pc = family
    /\ loop # StopIteration
    /\ beam' = beam_at(material, loop)
    /\ LET r == get_new_best_beam(beam', loading, best)
       IN  IF r.raised
           THEN /\ pc' = "crashed"
                /\ UNCHANGED <<loop, best>>
           ELSE /\ best' = r.val
                /\ loop' = next(loop)
                /\ pc' = pc
    /\ UNCHANGED <<materials, i, best_I_beams, best_RHS_beams, best_CHS_beams,
                   pair, fold>>

\* "if best_X_beam is not None: best_X_beams.append(best_X_beam)", always
\* appending in the variant.
collect_always(beams, found) == Append(beams, found)
collect(beams, found) == IF found # None THEN Append(beams, found) ELSE beams

get_best_I_beam_loop == search_body("I")
get_best_RHS_beam_loop == search_body("RHS")
get_best_CHS_beam_loop == search_body("CHS")

\* The loops are exhausted: the search returns its incumbent, the driver
\* collects it and starts the next search.
get_best_I_beam_return ==
    /\ pc = "I" /\ loop = StopIteration
    /\ best_I_beams' = collect(best_I_beams, best)
    /\ pc' = "RHS" /\ loop' = RHS_first /\ best' = None /\ beam' = None
    /\ UNCHANGED <<materials, i, best_RHS_beams, best_CHS_beams, pair, fold>>
get_best_RHS_beam_return ==
    /\ pc = "RHS" /\ loop = StopIteration
    /\ best_RHS_beams' = collect(best_RHS_beams, best)
    /\ pc' = "CHS" /\ loop' = CHS_first /\ best' = None /\ beam' = None
    /\ UNCHANGED <<materials, i, best_I_beams, best_CHS_beams, pair, fold>>
get_best_CHS_beam_return ==
    /\ pc = "CHS" /\ loop = StopIteration
    /\ best_CHS_beams' = collect(best_CHS_beams, best)
    /\ IF i < Len(materials)
       THEN /\ i' = i + 1 /\ pc' = "I" /\ loop' = I_first
       ELSE /\ i' = i /\ pc' = "done" /\ loop' = StopIteration
    /\ best' = None /\ beam' = None
    /\ UNCHANGED <<materials, best_I_beams, best_RHS_beams, pair, fold>>

Next ==
    \/ get_best_I_beam_loop
    \/ get_best_I_beam_return
    \/ get_best_RHS_beam_loop
    \/ get_best_RHS_beam_return
    \/ get_best_CHS_beam_loop
    \/ get_best_CHS_beam_return

Spec == Init /\ [][Next]_vars

\* ------------------------------------------------- properties of the search
Sufficient(s) == is_sufficient(s, loading).val
Searching == pc \in Families
Returning == pc \in Families /\ loop = StopIteration
\* The grid of each family and material, and its sufficient points.
GridOf == [f \in Families |-> [m \in MaterialRows |-> grid(f, m)]]
SufficientOf ==
    [f \in Families |-> [m \in MaterialRows |-> {g \in GridOf[f][m] : Sufficient(g)}]]
SomeSufficient(family, m) == SufficientOf[family][m] # {}
Collected == <<best_I_beams, best_RHS_beams, best_CHS_beams>>
\* Number of materials whose search of the k-th family has returned.
Returned(k) ==
    IF pc = "done" THEN i
    ELSE IF (k = 1 /\ pc \in {"RHS", "CHS"}) \/ (k = 2 /\ pc = "CHS") THEN i
    ELSE i - 1
FamilyOf(k) == <<"I", "RHS", "CHS">>[k]

\* C2: when a family search returns and some grid point is sufficient, the
\* returned beam is a sufficient grid point of minimum area among the
\* sufficient grid points.
C2_ReturnsMinimumArea ==
    (Returning /\ SomeSufficient(pc, material)) =>
        /\ best \in SufficientOf[pc][material]
        /\ \A g \in SufficientOf[pc][material] : RLeq(area(best), area(g))

\* C3: the incumbent, and every collected result, is absent or sufficient
\* under the load, whatever its area.
C3_IncumbentSufficient ==
    /\ best = None \/ Sufficient(best)
    /\ \A k \in 1..3 : \A j \in DOMAIN Collected[k] : Sufficient(Collected[k][j])
C3_Witness ==
    /\ Returning
    /\ best # None
    /\ \E g \in GridOf[pc][material] : ~Sufficient(g) /\ RLt(area(g), area(best))

\* C4: a search returns None exactly when no grid point of its family is
\* sufficient, and each result list holds one beam, in order, for exactly
\* the materials searched so far that have a sufficient grid point.
C4_NoneIffNoSufficient ==
    /\ Returning => (best = None <=> ~SomeSufficient(pc, material))
    /\ \A k \in 1..3 :
          LET Feasible(m) == SomeSufficient(FamilyOf(k), m)
              want == SelectSeq(SubSeq(materials, 1, Returned(k)), Feasible)
          IN  /\ Len(Collected[k]) = Len(want)
              /\ \A j \in DOMAIN want :
                    /\ Collected[k][j].material = want[j]
                    /\ Collected[k][j].family = FamilyOf(k)
C4_Witness ==
    /\ pc = "done"
    /\ \E j, k \in DOMAIN materials :
          /\ ~SomeSufficient("RHS", materials[j])
          /\ SomeSufficient("RHS", materials[k])
    /\ Len(best_RHS_beams) < Len(materials)
    /\ Len(best_RHS_beams) > 0

\* C7: no grid point raises: the script never crashes, is_sufficient and
\* get_new_best_beam give a value for the beam just constructed, and a
\* beam of zero area is not sufficient.
C7_NoError ==
    /\ pc # "crashed"
    /\ beam # None =>
          /\ ~is_sufficient(beam, loading).raised
          /\ ~get_new_best_beam(beam, loading, best).raised
          /\ (area(beam).n = 0 => ~Sufficient(beam))
C7_Witness ==
    /\ Searching
    /\ beam # None
    /\ area(beam).n = 0
    /\ loop = next(first(pc))

\* The loops visit exactly the positions of the family's grid, and every
\* beam constructed is a point of it.
LoopInGrid ==
    /\ (Searching /\ loop # StopIteration) =>
          loop \in (I_positions \cup RHS_positions \cup CHS_positions)
    /\ beam # None => beam \in GridOf[pc][material]
    /\ Returning =>
          Cardinality(GridOf[pc][material]) =
             Cardinality(CASE pc = "I" -> I_positions
                           [] pc = "RHS" -> RHS_positions
                           [] pc = "CHS" -> CHS_positions)

\* C10: every beam a search constructs is physically valid for its family.
Valid(s) ==
    CASE s.family = "I" -> s.tw <= s.b /\ 2 * s.tf <= s.h
      [] s.family = "RHS" -> 2 * s.t < Min2(s.b, s.h)
      [] s.family = "CHS" ->
            s.t <= s.r /\ 2 * s.r <= Min2(max_breadth, max_height)
C10_GridGeometryValid == beam # None => Valid(beam)

\* ------------------------------------------------- pairwise comparison
\* Two beams of one family are drawn; compare evaluates their areas and
\* get_new_best_beam both ways round (each as candidate, the other as
\* incumbent).
MaxRadius == 5
CHS_box(m) ==
    { CHSBeam(m, length, r, t) : <<r, t>> \in {x \in (1..MaxRadius) \X (1..MaxRadius) : x[2] <= x[1]} }
PairBeams(family) ==
    UNION { IF family = "CHS" THEN CHS_box(m) \cup CHS_grid(m) ELSE grid(family, m)
            : m \in MaterialRows }

SearchIdle ==
    /\ materials = <<>> /\ i = 0 /\ pc = "idle" /\ loop = StopIteration
    /\ beam = None /\ best = None
    /\ best_I_beams = <<>> /\ best_RHS_beams = <<>> /\ best_CHS_beams = <<>>

InitPair ==
    /\ SearchIdle
    /\ fold = Idle
    /\ \E family \in Families :
          pair \in [pc : {"drawn"}, A : PairBeams(family), B : PairBeams(family)]

compare ==
    /\ pair.pc = "drawn"
    /\ pair' = [pc |-> "compared", A |-> pair.A, B |-> pair.B,
                area_A |-> area(pair.A), area_B |-> area(pair.B),
                AB |-> get_new_best_beam(pair.A, loading, pair.B),
                BA |-> get_new_best_beam(pair.B, loading, pair.A)]
    /\ UNCHANGED <<searchVars, fold>>

NextPair == compare
SpecPair == InitPair /\ [][NextPair]_vars

Compared == pair.pc = "compared"
BothSufficient == Sufficient(pair.A) /\ Sufficient(pair.B)
StifferBothAxes(s, t) ==
    /\ RLt(second_moment_of_area_xx(t), second_moment_of_area_xx(s))
    /\ RLt(second_moment_of_area_yy(t), second_moment_of_area_yy(s))

\* C1: of two sufficient beams the one of strictly smaller area is returned,
\* whichever of the two is the incumbent.
C1_SmallerAreaWins ==
    (Compared /\ BothSufficient /\ RLt(pair.area_A, pair.area_B)) =>
        /\ pair.AB.val = pair.A
        /\ pair.BA.val = pair.A

\* C5: candidate A against incumbent B, both sufficient, of equal area: A is
\* returned if it is strictly greater in both second moments of area, and B
\* is kept if A is strictly greater in at most one.
C5_TieBreak ==
    (Compared /\ BothSufficient /\ REq(pair.area_A, pair.area_B)) =>
        /\ ~pair.AB.raised
        /\ StifferBothAxes(pair.A, pair.B) => pair.AB.val = pair.A
        /\ ~StifferBothAxes(pair.A, pair.B) => pair.AB.val = pair.B
C5_Witness ==
    /\ Compared /\ BothSufficient
    /\ REq(pair.area_A, pair.area_B)
    /\ StifferBothAxes(pair.A, pair.B)
    /\ pair.AB.val = pair.A
    /\ pair.A # pair.B
\* The other case of C5: stiffer in exactly one axis, the incumbent is kept.
C5_MixedReached ==
    /\ Compared /\ BothSufficient
    /\ REq(pair.area_A, pair.area_B)
    /\ RLt(second_moment_of_area_xx(pair.B), second_moment_of_area_xx(pair.A))
    /\ ~RLt(second_moment_of_area_yy(pair.B), second_moment_of_area_yy(pair.A))
    /\ pair.AB.val = pair.B

\* C8.  A and B are I-beams of the same breadth and height with thicknesses
\* the claim allows (step <= tw <= b, step <= tf <= h/2); B is A with a
\* larger web thickness, or with a larger flange thickness.
IBeamPair ==
    /\ Compared
    /\ pair.A.family = "I" /\ pair.B.family = "I"
    /\ pair.A.b = pair.B.b /\ pair.A.h = pair.B.h
    /\ \A s \in {pair.A, pair.B} :
          /\ step_size <= s.tw /\ s.tw <= s.b
          /\ step_size <= s.tf /\ 2 * s.tf <= s.h
WebThicker == pair.A.tf = pair.B.tf /\ pair.A.tw < pair.B.tw
FlangeThicker == pair.A.tw = pair.B.tw /\ pair.A.tf < pair.B.tf

\* C8 as stated: a larger web or flange thickness strictly increases area.
C8_AreaStrictlyIncreases ==
    (IBeamPair /\ (WebThicker \/ FlangeThicker)) =>
        RLt(pair.area_A, pair.area_B)
\* C8 amended: area never decreases; it strictly increases with the web
\* thickness exactly when 2*tf < h, and with the flange thickness exactly
\* when tw < b.
C8_AreaMonotone ==
    IBeamPair =>
        /\ (WebThicker \/ FlangeThicker) => RLeq(pair.area_A, pair.area_B)
        /\ WebThicker =>
              (RLt(pair.area_A, pair.area_B) <=> 2 * pair.A.tf < pair.A.h)
        /\ FlangeThicker =>
              (RLt(pair.area_A, pair.area_B) <=> pair.A.tw < pair.A.b)
C8_Witness ==
    /\ IBeamPair /\ WebThicker
    /\ 2 * pair.A.tf = pair.A.h
    /\ REq(pair.area_A, pair.area_B)

\* C9.  The exact area of the annulus of outer radius r and wall t.
AnnulusArea(r, t) == RMul(pi, RInt(r * r - (r - t) * (r - t)))
CHSValid(s) == s.family = "CHS" /\ 0 < s.t /\ s.t <= s.r
\* C9 as stated: for some valid dimensions CHSBeam.area differs from the
\* exact annulus area.
C9_AreaDiffersFromAnnulus ==
    Compared =>
        \E s \in PairBeams("CHS") :
            CHSValid(s) /\ ~REq(area(s), AnnulusArea(s.r, s.t))
\* C9 amended: for all valid dimensions CHSBeam.area equals the exact
\* annulus area.
C9_AreaIsAnnulus ==
    (Compared /\ CHSValid(pair.A)) =>
        REq(pair.area_A, AnnulusArea(pair.A.r, pair.A.t))
C9_Witness ==
    /\ Compared /\ CHSValid(pair.A)
    /\ pair.A.t < pair.A.r
    /\ pair.A.r > step_size

\* ------------------------------------------------- reduction of a beam list
\* FoldLen distinct grid beams of one family and material are listed in
\* some order and cut into two shards at split; each shard is folded with
\* get_new_best_beam from an absent incumbent, then the shard winners are
\* folded the same way.  (split = FoldLen: a single shard.)
FoldFamilies == {"RHS", "CHS"}
FoldMaterials == {m \in MaterialRows : m.name \in {"soft", "stiff"}}
Orderings(S) ==
    { q \in [1..FoldLen -> S] : \A j, k \in 1..FoldLen : j # k => q[j] # q[k] }

\* best = None; for beam in beams: best = beam.get_new_best_beam(loading, best)
RECURSIVE FoldSeq(_, _)
FoldSeq(q, acc) ==
    IF q = <<>> THEN acc
    ELSE FoldSeq(Tail(q), get_new_best_beam(Head(q), loading, acc).val)

InitFold ==
    /\ SearchIdle
    /\ pair = Idle
    /\ \E family \in FoldFamilies, m \in FoldMaterials :
          fold \in [pc : {"listed"}, beams : Orderings(grid(family, m)),
                    split : 1..FoldLen]

\* Each worker folds its shard from an absent incumbent.
fold_shards ==
    /\ fold.pc = "listed"
    /\ fold' = [pc |-> "folded", beams |-> fold.beams, split |-> fold.split,
                acc1 |-> FoldSeq(SubSeq(fold.beams, 1, fold.split), None),
                acc2 |-> FoldSeq(SubSeq(fold.beams, fold.split + 1,
                                        Len(fold.beams)), None)]
    /\ UNCHANGED <<searchVars, pair>>

\* Fold the shard winners, skipping a shard that found no beam.
reduce ==
    /\ fold.pc = "folded"
    /\ fold' = [pc |-> "reduced", beams |-> fold.beams, split |-> fold.split,
                final |-> FoldSeq(SelectSeq(<<fold.acc1, fold.acc2>>,
                                            LAMBDA w : w # None), None)]
    /\ UNCHANGED <<searchVars, pair>>

NextFold == fold_shards \/ reduce
SpecFold == InitFold /\ [][NextFold]_vars

\* The order in which the nested for loops construct two grid beams:
\* breadth (radius) outermost, thickness innermost, each ascending.
LoopKey(s) ==
    CASE s.family = "I" -> <<s.b, s.h, s.tw, s.tf>>
      [] s.family = "RHS" -> <<s.b, s.h, s.t, 0>>
      [] s.family = "CHS" -> <<s.r, s.t, 0, 0>>
LoopBefore(s, t) ==
    LET x == LoopKey(s)
        y == LoopKey(t)
    IN  \E j \in 1..4 : x[j] < y[j] /\ \A k \in 1..(j - 1) : x[k] = y[k]
RECURSIVE SequentialFold(_, _)
SequentialFold(S, acc) ==
    IF S = {} THEN acc
    ELSE LET s == CHOOSE x \in S : \A y \in S \ {x} : LoopBefore(x, y)
         IN  SequentialFold(S \ {s}, get_new_best_beam(s, loading, acc).val)

Reduced == fold.pc = "reduced"
C6_EqualAreaOrderIndependent ==
    (/\ Reduced /\ fold.split = FoldLen
     /\ \A s, t \in Range(fold.beams) :
           Sufficient(s) /\ REq(area(s), area(t))) =>
        fold.final = SequentialFold(Range(fold.beams), None)
=============================================================================
